---- MODULE Spec2Model ----
(***************************************************************************)
(* Playback controller and event ledger of bioviz.Viz                      *)
(* (src/bioviz/__init__.py) with the C3D editor panel that drives them     *)
(* (src/bioviz/analyses/c3d_editor_analyses.py).                           *)
(*                                                                         *)
(* The timeline slider is a Qt QSlider: setValue bounds its argument to    *)
(* [minimum, maximum] and emits valueChanged only when the bounded value   *)
(* differs from the current one; setMinimum/setMaximum go through setRange *)
(* which re-bounds the current value.  The slot connected to valueChanged  *)
(* is Viz._animate_from_slider.                                            *)
(*                                                                         *)
(* A motion array is abstracted to its number of frames n (two arrays of   *)
(* different lengths are different arrays); its row t is the pose          *)
(* [n |-> n, t |-> t].                                                     *)
(*                                                                         *)
(* The collections of bioviz.biorbd_vtk.VtkModel (markers, meshes,         *)
(* reference frames) hold the batch last stored and one actor per          *)
(* primitive.  The geometry Viz draws for a segment is abstracted to the   *)
(* pose of the kinematics it was computed from, or NaN when the segment is *)
(* hidden.  The muscle, ligament and wrapping layers appear through the    *)
(* kinematics passes they cost; the global reference frame is one fixed    *)
(* actor and is left out.                                                  *)
(***************************************************************************)
EXTENDS Integers, Sequences, FiniteSets, TLC

Max(a, b) == IF a >= b THEN a ELSE b
Min(a, b) == IF a <= b THEN a ELSE b

\* ---------------------------------------------------------------- bounds
\* Loaded arrays (motion, experimental markers) have between 1 and MaxFrames
\* frames.
MaxFrames == 3

\* Number of event slots allocated by add_options_panel.  The source fixes it
\* at 100 (src/bioviz/__init__.py:332); the model explores a smaller ledger.
n_max_events == 2

\* A geometry batch given to a VtkModel collection has at most MaxPrimitives
\* primitives (markers, meshes).
MaxPrimitives == 2

\* Number of segments of the biorbd model given to the viewer
\* (model.nbSegment()).
nbSegment == 2

\* ------------------------------------------------------------- constants
\* Initial range of the timeline slider (slider.setMaximum(100)).
SliderInitialMaximum == 100

\* Python's None for animated_Q (no motion loaded; q_shape is 0).
None == [shape0 |-> 0]
\* np.zeros(nQ), the pose set by the constructor.
ZeroPose == [n |-> 0, t |-> 0]
FrameCounts == 1..MaxFrames
\* Arguments of the public trim setters: any integer, here a window that
\* extends past both ends of the timeline.
FrameArgs == -1..(MaxFrames + 1)
\* Frames and names given to set_event.
EventFrames == {-1, 0, MaxFrames}
EventNames == {"a"}
\* index argument of set_event / select_event: <<>> is Python's None.
NoIndex == <<>>
EventIndices == {NoIndex} \cup {<<i>> : i \in (-n_max_events - 1)..n_max_events}
\* last_event_index is an unbounded Python int: appends are explored until it
\* has passed the last slot.
LastEventIndexCap == n_max_events

\* Geometry batches.  A marker batch is [channels, frames, tag]: its number
\* of markers, its number of time frames and the identity of its positions.
\* FrameSpans has one value for a single instant and one for more than one.
FrameSpans == {1, 2}
BatchTags == {0, 1, 2}
MarkerBatches ==
    [channels : 0..MaxPrimitives, frames : FrameSpans, tag : BatchTags]
\* Markers() of pyomeca: no channel, no frame.
EmptyMarkers == [channels |-> 0, frames |-> 0, tag |-> 0]
\* A mesh is [channels, frames] (vertices, time frames); a batch is a list.
VertexCounts == {1, 2}
Meshes == [channels : VertexCounts, frames : FrameSpans]
ListsOf(S) == UNION {[1..n -> S] : n \in 0..MaxPrimitives}
MeshBatches == ListsOf(Meshes)
\* A reference frame (Rototrans) is [frames].
Rototranses == [frames : FrameSpans]
\* vtkActor objects: an actor is <<collection, k>>.
ActorKeys == 0..(2 * Max(MaxPrimitives, nbSegment) - 1)

\* The biorbd model: its segments, the number of markers each one owns
\* (model.nbMarkers(s)), the vertices of each segment mesh and the number of
\* wrapping objects on its muscle and ligament paths.
Segments == 0..(nbSegment - 1)
nbMarkersOf(s) == 1
nbMarkers == nbSegment
nbVertexOf(s) == 1
nbWraps == 1
\* The number of generalized coordinates of the model (self.nQ).
nQ == 2
\* The poses handed to set_q by a caller: what the object is, its number of
\* dimensions, shape[0] and its content.
ManualPoses == {1}
PoseArgs ==
    {[type |-> ty, ndim |-> 1, pose |-> [n |-> 0, t |-> k, shape0 |-> z]] :
        ty \in {"ndarray", "tuple"}, k \in ManualPoses, z \in {nQ, nQ + 1}}
    \cup
    {[type |-> "DataArray", ndim |-> 2, pose |-> [n |-> 0, t |-> 1, shape0 |-> z]] :
        z \in {nQ, nQ + 1}}
\* The arguments given to toggle_segments: an int is turned into a 1-tuple.
SegmentArgs == UNION {[1..n -> 0..nbSegment] : n \in 1..2} \cup {<<-1>>}
\* np.nan written over the geometry of a hidden segment.
NaN == [nan |-> TRUE]
\* The options of the constructor that decide which layers set_q updates.
ShowOptions ==
    {o \in [markers : BOOLEAN, meshes : BOOLEAN, local_ref_frame : BOOLEAN,
            global_ref_frame : BOOLEAN, muscles : BOOLEAN, ligaments : BOOLEAN,
            wrappings : BOOLEAN] :
        o.wrappings => (o.muscles /\ o.ligaments)}
\* A viewer asked to show none of these layers: its VtkModel is as built.
NoLayers ==
    [markers |-> FALSE, meshes |-> FALSE, local_ref_frame |-> FALSE,
     global_ref_frame |-> FALSE, muscles |-> FALSE, ligaments |-> FALSE,
     wrappings |-> FALSE]
\* The defaults of Viz.__init__ on a model that has muscles and ligaments.
DefaultShow ==
    [markers |-> TRUE, meshes |-> TRUE, local_ref_frame |-> TRUE,
     global_ref_frame |-> TRUE, muscles |-> TRUE, ligaments |-> TRUE,
     wrappings |-> TRUE]

VARIABLES
    movement_slider,        \* movement_slider[0]: [minimum, maximum, value]
    movement_first_frame,
    movement_last_frame,
    is_animating,
    is_recording,
    animated_Q,             \* None or [shape0 |-> number of frames]
    Q,                      \* current pose: ZeroPose or a motion row
    experimental_markers,   \* shape[2] of the markers, 0 when None
    events,                 \* slot -> [frame, name, value, is_selected]
    last_event_index,
    current_event_selected, \* C3dEditorAnalyses: the panel's selected event
    event_setter_visible,   \* C3dEditorAnalyses: the event frame editor is shown
    show,                   \* the show_* options given to the constructor
    show_segment_is_on,     \* segment -> BOOLEAN
    idx_markers_to_remove,  \* the marker indices hidden by toggle_segments
    kinematics,             \* the pose of the last kinematics pass of the model
    markers,                \* VtkModel.markers: the marker batch stored
    markers_actors,         \* VtkModel.markers_actors: list of [id, center]
    all_meshes,             \* VtkModel.all_meshes: the list of meshes stored
    mesh_actors,            \* VtkModel.mesh_actors: list of actor ids
    all_rt,                 \* VtkModel.all_rt: the list of reference frames stored
    n_rt,                   \* VtkModel.n_rt
    rt_actors,              \* VtkModel.rt_actors: list of actor ids
    ren,                    \* VtkWindow.ren: the actors in the renderer
    is_active,              \* VtkWindow.is_active
    is_executing,
    exec_pc,                \* where Viz.exec is: "idle" or "loop"
    animation_warning_already_shown,
    warnings_shown,         \* how many times the 'not executing' warning was shown
    c3d_file,               \* the file named by Viz.c3d_file_name, or None
    exported_file,          \* the file written by "Export C3D", or None
    first_frame_c3d,        \* C3dEditorAnalyses.first_frame_c3d
    event_from_c3d_file_name,
    call                    \* the last call made: [op, args, raised]

vars == <<movement_slider, movement_first_frame, movement_last_frame, is_animating,
          is_recording, animated_Q, Q, experimental_markers,
          events, last_event_index, current_event_selected,
          event_setter_visible, show, show_segment_is_on, idx_markers_to_remove,
          kinematics, markers, markers_actors, all_meshes, mesh_actors, all_rt, n_rt,
          rt_actors, ren, is_active, is_executing, exec_pc,
          animation_warning_already_shown, warnings_shown, c3d_file, exported_file,
          first_frame_c3d, event_from_c3d_file_name, call>>

playback_vars == <<movement_slider, movement_first_frame, movement_last_frame,
                   is_animating, is_recording, animated_Q, Q, experimental_markers>>

ledger_vars == <<events, last_event_index>>

panel_vars == <<current_event_selected, event_setter_visible>>

vtk_vars == <<markers, markers_actors, all_meshes, mesh_actors, all_rt, n_rt,
              rt_actors, ren>>

layer_vars == <<show, show_segment_is_on, idx_markers_to_remove>>

exec_vars == <<is_active, is_executing, exec_pc>>

warning_vars == <<animation_warning_already_shown, warnings_shown>>

c3d_vars == <<c3d_file, exported_file, first_frame_c3d, event_from_c3d_file_name>>

session_vars == <<exec_vars, warning_vars, c3d_vars>>

\* What the operations of the playback controller and of the ledger never
\* write.
other_vars == <<panel_vars, layer_vars, kinematics, vtk_vars, session_vars>>

\* ---------------------------------------------------------------- QSlider
Bound(lo, v, hi) == Max(lo, Min(hi, v))

SetValue(s, v) == [s EXCEPT !.value = Bound(s.minimum, v, s.maximum)]

SetRange(s, lo, hi) ==
    [minimum |-> lo, maximum |-> Max(lo, hi), value |-> Bound(lo, s.value, Max(lo, hi))]

SetMinimum(s, lo) == SetRange(s, lo, Max(s.maximum, lo))

SetMaximum(s, hi) == SetRange(s, Min(s.minimum, hi), hi)

\* --------------------------------------------------------------- VtkModel
Range(f) == {f[i] : i \in DOMAIN f}
Lowest(S) == CHOOSE x \in S : \A y \in S : x <= y

\* The m lowest keys of S, in increasing order.
RECURSIVE LowestKeys(_, _)
LowestKeys(S, m) ==
    IF m = 0 THEN <<>> ELSE <<Lowest(S)>> \o LowestKeys(S \ {Lowest(S)}, m - 1)

\* n calls of vtkActor() for a collection: n new objects, none of which is
\* one of the actors `old` the collection held.
NewActors(kind, old, n) ==
    LET free == {k \in ActorKeys : <<kind, k>> \notin old}
        keys == LowestKeys(free, n)
    IN  [i \in 1..n |-> <<kind, keys[i]>>]

\* The frame test shared by the collections: the batch (or one primitive of
\* it) spans more than one time frame.
SeveralFrames(x) == x.frames # 1

\* The indices of the primitives of a list that span several frames.
SeveralFramesIn(batch) == {i \in DOMAIN batch : SeveralFrames(batch[i])}

\* The loop of update_markers: every actor gets a sphere centred on its
\* marker of the batch.
MarkerCenters(batch, actors) ==
    [i \in DOMAIN actors |-> [actors[i] EXCEPT !.center = <<batch.tag, i>>]]

\* The cardinality test of update_markers.
MarkerCountGrows(batch, stored) == batch.channels > stored.channels

MarkerCountDiffers(batch, stored) == batch.channels # stored.channels

\* VtkModel.update_markers and VtkModel.new_marker_set on the stored batch,
\* the actor list and the renderer: what they are afterwards, and whether
\* IndexError was raised.
RECURSIVE UpdateMarkers(_, _, _, _)
NewMarkerSet(stored, actors, r, batch) ==
    IF SeveralFrames(batch)
    THEN [markers |-> stored, actors |-> actors, ren |-> r, raised |-> TRUE]
    ELSE LET old == {actors[i].id : i \in DOMAIN actors}
             ids == NewActors("markers", old, batch.channels)
             created == [i \in DOMAIN ids |-> [id |-> ids[i], center |-> <<>>]]
         IN  UpdateMarkers(batch, created, (r \ old) \cup Range(ids), batch)

UpdateMarkers(stored, actors, r, batch) ==
    IF SeveralFrames(batch)
    THEN [markers |-> stored, actors |-> actors, ren |-> r, raised |-> TRUE]
    ELSE IF MarkerCountDiffers(batch, stored)
         THEN NewMarkerSet(stored, actors, r, batch)
         ELSE [markers |-> batch, actors |-> MarkerCenters(batch, actors), ren |-> r,
               raised |-> FALSE]

\* VtkModel.update_mesh and VtkModel.new_mesh_set.  new_mesh_set stores the
\* list and removes the old actors before it looks at the frames of each
\* mesh; update_mesh recreates at the first mesh that has no stored
\* counterpart or another number of vertices.
RECURSIVE UpdateMesh(_, _, _, _)
NewMeshSet(stored, actors, r, batch) ==
    LET old == Range(actors)
        bad == SeveralFramesIn(batch)
        made == IF bad = {} THEN Len(batch) ELSE Lowest(bad) - 1
        ids == NewActors("mesh", old, made)
        r1 == (r \ old) \cup Range(ids)
    IN  IF bad = {}
        THEN UpdateMesh(batch, ids, r1, batch)
        ELSE [all_meshes |-> batch, actors |-> ids, ren |-> r1, raised |-> TRUE]

UpdateMesh(stored, actors, r, batch) ==
    LET bad == SeveralFramesIn(batch)
        differ == {i \in DOMAIN batch :
                      Len(stored) < i \/ batch[i].channels # stored[i].channels}
    IN  IF bad \cup differ # {}
        THEN IF Lowest(bad \cup differ) \in bad
             THEN [all_meshes |-> stored, actors |-> actors, ren |-> r, raised |-> TRUE]
             ELSE NewMeshSet(stored, actors, r, batch)
        ELSE [all_meshes |-> batch, actors |-> actors, ren |-> r,
              raised |-> Len(batch) > Len(actors)]

\* VtkModel.update_rt and VtkModel.new_rt_set.  new_rt_set writes n_rt only
\* after all actors were created; update_rt stores the list before it looks
\* at the frames of each reference frame.
RECURSIVE UpdateRt(_, _, _, _, _)
NewRtSet(stored, n, actors, r, batch) ==
    LET old == Range(actors)
        bad == SeveralFramesIn(batch)
        made == IF bad = {} THEN Len(batch) ELSE Lowest(bad) - 1
        ids == NewActors("rt", old, made)
        r1 == (r \ old) \cup Range(ids)
    IN  IF bad = {}
        THEN UpdateRt(stored, Len(batch), ids, r1, batch)
        ELSE [all_rt |-> stored, n_rt |-> n, actors |-> ids, ren |-> r1, raised |-> TRUE]

UpdateRt(stored, n, actors, r, batch) ==
    IF Len(batch) # n
    THEN NewRtSet(stored, n, actors, r, batch)
    ELSE [all_rt |-> batch, n_rt |-> n, actors |-> actors, ren |-> r,
          raised |-> SeveralFramesIn(batch) # {} \/ Len(batch) > Len(actors)]

\* ------------------------------------------------------------- Viz layers
\* The collections of the VtkModel as one record.
BlankVtkModel ==
    [markers |-> EmptyMarkers, markers_actors |-> <<>>, all_meshes |-> <<>>,
     mesh_actors |-> <<>>, all_rt |-> <<>>, n_rt |-> 0, rt_actors |-> <<>>, ren |-> {}]

VtkModelNow ==
    [markers |-> markers, markers_actors |-> markers_actors, all_meshes |-> all_meshes,
     mesh_actors |-> mesh_actors, all_rt |-> all_rt, n_rt |-> n_rt,
     rt_actors |-> rt_actors, ren |-> ren]

VtkModelBecomes(v) ==
    /\ markers' = v.markers
    /\ markers_actors' = v.markers_actors
    /\ all_meshes' = v.all_meshes
    /\ mesh_actors' = v.mesh_actors
    /\ all_rt' = v.all_rt
    /\ n_rt' = v.n_rt
    /\ rt_actors' = v.rt_actors
    /\ ren' = v.ren

\* The segment that owns marker m (0-based), following the offsets of the
\* loop of toggle_segments over model.nbMarkers(s).
RECURSIVE MarkersBefore(_)
MarkersBefore(s) == IF s = 0 THEN 0 ELSE MarkersBefore(s - 1) + nbMarkersOf(s - 1)
MarkersOfSegment(s) == MarkersBefore(s)..(MarkersBefore(s) + nbMarkersOf(s) - 1)

\* Viz._set_markers_from_q: the positions come from the cached kinematics
\* (compute_kin=False), the removed markers are overwritten with NaN and
\* the one-frame batch is handed to update_markers.  The content of the
\* batch is the pose it was computed at and the markers that are NaN.
SetMarkersFromQ(sh, idx, kin, v) ==
    IF ~sh.markers THEN v
    ELSE LET batch == [channels |-> nbMarkers, frames |-> 1,
                       tag |-> [at |-> kin, nan |-> idx]]
             r == UpdateMarkers(v.markers, v.markers_actors, v.ren, batch)
         IN  [v EXCEPT !.markers = r.markers, !.markers_actors = r.actors,
                       !.ren = r.ren]

\* Viz._set_meshes_from_q: one mesh per segment, NaN when the segment is off.
SetMeshesFromQ(sh, on, kin, v) ==
    IF ~sh.meshes THEN v
    ELSE LET batch == [m \in 1..nbSegment |->
                          [channels |-> nbVertexOf(m - 1), frames |-> 1,
                           at |-> IF on[m - 1] THEN kin ELSE NaN]]
             r == UpdateMesh(v.all_meshes, v.mesh_actors, v.ren, batch)
         IN  [v EXCEPT !.all_meshes = r.all_meshes, !.mesh_actors = r.actors,
                       !.ren = r.ren]

\* Viz._set_rt_from_q: skipped unless the local reference frames are shown.
SetRtFromQ(sh, on, kin, v) ==
    IF ~sh.local_ref_frame THEN v
    ELSE LET batch == [k \in 1..nbSegment |->
                          [frames |-> 1, at |-> IF on[k - 1] THEN kin ELSE NaN]]
             r == UpdateRt(v.all_rt, v.n_rt, v.rt_actors, v.ren, batch)
         IN  [v EXCEPT !.all_rt = r.all_rt, !.n_rt = r.n_rt, !.rt_actors = r.actors,
                       !.ren = r.ren]

\* The kinematics passes of the model during one set_q: UpdateKinematicsCustom,
\* then updateMuscles(Q, True) and updateLigaments(Q, True) behind
\* MusclesPointsInGlobal and LigamentsPointsInGlobal, then RT(model, Q) of
\* every wrapping object, which updates the kinematics by default.
KinematicsPasses(sh) ==
    1 + (IF sh.muscles THEN 1 ELSE 0) + (IF sh.ligaments THEN 1 ELSE 0)
      + (IF sh.wrappings THEN nbWraps ELSE 0)

\* The layers of set_q after the kinematics pass at pose q, in the order of
\* the source: reference frames, meshes, markers.  Each step works on the
\* value the previous one produced.
SetQLayers(sh, on, idx, q, v) ==
    CHOOSE v3 \in {SetMarkersFromQ(sh, idx, q, v2) :
                      v2 \in {SetMeshesFromQ(sh, on, q, v1) :
                                 v1 \in {SetRtFromQ(sh, on, q, v0) : v0 \in {v}}}} : TRUE

\* What set_q leaves behind it: the stored pose, the pose of the model's
\* kinematics and the collections of the VtkModel.
PoseNow == [Q |-> Q, kinematics |-> kinematics, vtk |-> VtkModelNow]

PoseBecomes(p) ==
    \E w \in {p} :
        /\ Q' = w.Q
        /\ kinematics' = w.kinematics
        /\ VtkModelBecomes(w.vtk)

\* Viz.set_q on a pose of the model's size: Q is stored, the kinematics are
\* updated and every shown layer is redrawn.
SetQ(p, q) ==
    [Q |-> q, kinematics |-> q,
     vtk |-> SetQLayers(show, show_segment_is_on, idx_markers_to_remove, q, p.vtk)]

\* The calls set_q(q) made one after the other by a handler.
RECURSIVE SetQEach(_, _)
SetQEach(p, qs) == IF qs = <<>> THEN p ELSE SetQEach(SetQ(p, Head(qs)), Tail(qs))

SetQCalls(qs) == PoseBecomes(SetQEach(PoseNow, qs))

\* ------------------------------------------------------------ FrameSource
\* animated_Q[t, :] with numpy's indexing: a negative t counts from the end.
Row(aq, t) == [n |-> aq.shape0, t |-> IF t < 0 THEN t + aq.shape0 ELSE t]

\* Viz._animate_from_slider after valueChanged fired at `value`: q is the
\* list of the poses handed to set_q so far by the running handler.
AnimateFromSlider(aq, q, value) ==
    IF aq # None
    THEN LET t_slider == value - 1
             t == IF t_slider < aq.shape0 THEN t_slider ELSE aq.shape0 - 1
         IN  Append(q, Row(aq, t))
    ELSE q

\* valueChanged is emitted only when the value actually changed.
OnValueChanged(aq, q, old, new) ==
    IF new.value # old.value THEN AnimateFromSlider(aq, q, new.value) ELSE q

\* movement_last_frame and the slider maximum chosen by _set_movement_slider.
TimelineLengthMotionFirst(q_shape, experiment_shape) ==
    IF q_shape > 0 THEN q_shape ELSE experiment_shape

TimelineLength(q_shape, experiment_shape) == Max(q_shape, experiment_shape)

\* Viz._set_movement_slider: the slider, the poses handed to set_q and the
\* last frame after the call.  The viewer
\* is used without experimental forces (experimental_forces is None), so
\* experiment_shape is the markers' frame count, or 0 without markers.
SetMovementSlider(s, aq, q, em) ==
    LET experiment_shape == Max(em, 0)
        q_shape == IF aq = None THEN 0 ELSE aq.shape0
        last == TimelineLength(q_shape, experiment_shape)
        s1 == SetMinimum(s, 1)
        q1 == OnValueChanged(aq, q, s, s1)
        s2 == SetMaximum(s1, last)
        q2 == OnValueChanged(aq, q1, s1, s2)
        s3 == SetValue(s2, 1)
        q3 == OnValueChanged(aq, q2, s2, s3)
    IN  [slider |-> s3, set_q |-> q3, last |-> last]

\* call records the operation just performed, what its arguments were with
\* respect to the state it started from, and whether it raised.
Called(op, args) == call' = [op |-> op, args |-> args, raised |-> FALSE]
Raised(op, args) == call' = [op |-> op, args |-> args, raised |-> TRUE]

\* ------------------------------------------------------------------- Init
\* The viewer after Viz(model, **options): the playback state, the empty
\* ledger, every segment on when meshes or reference frames are built, and
\* the layers drawn by the set_q(zeros) that ends the constructor.
InitWith(o) ==
    /\ movement_slider = [minimum |-> 0, maximum |-> SliderInitialMaximum, value |-> 0]
    /\ movement_first_frame = 0
    /\ movement_last_frame = -1
    /\ is_animating = FALSE
    /\ is_recording = FALSE
    /\ animated_Q = None
    /\ Q = ZeroPose
    /\ experimental_markers = 0
    /\ events = [i \in 0..(n_max_events - 1) |->
                    [frame |-> -1, name |-> "", value |-> -1, is_selected |-> FALSE]]
    /\ last_event_index = -1
    /\ current_event_selected = -1
    /\ event_setter_visible = FALSE
    /\ show = o
    /\ show_segment_is_on =
           [s \in Segments |-> o.meshes \/ o.local_ref_frame \/ o.global_ref_frame]
    /\ idx_markers_to_remove = {}
    /\ kinematics = ZeroPose
    /\ LET on == [s \in Segments |-> o.meshes \/ o.local_ref_frame \/ o.global_ref_frame]
           v == SetQLayers(o, on, {}, ZeroPose, BlankVtkModel)
       IN  /\ markers = v.markers
           /\ markers_actors = v.markers_actors
           /\ all_meshes = v.all_meshes
           /\ mesh_actors = v.mesh_actors
           /\ all_rt = v.all_rt
           /\ n_rt = v.n_rt
           /\ rt_actors = v.rt_actors
           /\ ren = v.ren
    /\ is_active = TRUE
    /\ is_executing = FALSE
    /\ exec_pc = "idle"
    /\ animation_warning_already_shown = FALSE
    /\ warnings_shown = 0
    /\ c3d_file = None
    /\ exported_file = None
    /\ first_frame_c3d = 0
    /\ event_from_c3d_file_name = ""
    /\ call = [op |-> "__init__", args |-> <<>>, raised |-> FALSE]

Init == InitWith(DefaultShow)

\* --------------------------------------------------------------- playback
\* Something has been loaded: _set_movement_slider has enabled the play
\* button and the slider.
Loaded == animated_Q # None \/ experimental_markers > 0

\* The flip of is_animating made by Viz._start_stop_animation.
StartStopAnimation(animating) == ~animating

\* The test of Viz._start_stop_animation that shows the 'not executing'
\* warning box.
WarningDueWheneverIdle(executing, shown) == ~executing

WarningDue(executing, shown) == ~executing /\ ~shown

\* What _start_stop_animation does to the warning flag, given the flag it
\* starts from; called says whether the toggle is made at all.
WarnOnToggle(called, shown) ==
    LET due == called /\ WarningDue(is_executing, shown)
    IN  /\ animation_warning_already_shown' = (shown \/ due)
        /\ warnings_shown' = warnings_shown + (IF due THEN 1 ELSE 0)

\* is_animating when a loader returns: _set_movement_slider has cleared it and
\* auto_start decides whether _start_stop_animation is called.
AnimatingAfterLoadPaused(auto_start) == FALSE

AnimatingAfterLoad(auto_start) ==
    IF auto_start THEN StartStopAnimation(FALSE) ELSE FALSE

\* The loaders share _set_movement_slider followed by the optional
\* _start_stop_animation.
LoadInto(aq, em, auto_start, ignore_animation_warning) ==
    LET r == SetMovementSlider(movement_slider, aq, <<>>, em)
    IN  /\ animated_Q' = aq
        /\ experimental_markers' = em
        /\ movement_slider' = r.slider
        /\ movement_first_frame' = 0
        /\ movement_last_frame' = r.last
        /\ is_animating' = AnimatingAfterLoad(auto_start)
        /\ WarnOnToggle(auto_start,
                        animation_warning_already_shown \/ ignore_animation_warning)
        /\ SetQCalls(r.set_q)
        /\ UNCHANGED <<is_recording, events, last_event_index>>
        /\ UNCHANGED <<panel_vars, layer_vars, exec_vars>>

\* Viz.load_movement(all_q, auto_start, ignore_animation_warning).
LoadMovement(n, auto_start, ignore_animation_warning) ==
    /\ LoadInto([shape0 |-> n], experimental_markers, auto_start,
                ignore_animation_warning)
    /\ Called("load_movement", <<>>)
    /\ UNCHANGED c3d_vars

\* load_movement with ignore_animation_warning left at its default.
load_movement(n, auto_start) == LoadMovement(n, auto_start, TRUE)

load_experimental_markers(n, auto_start) ==
    /\ LoadInto(animated_Q, n, auto_start, TRUE)
    /\ Called("load_experimental_markers", <<>>)
    /\ UNCHANGED c3d_vars

\* The frame kept by set_movement_first_frame / set_movement_last_frame.
FirstFrameUnclamped(frame, last) == frame

FirstFrame(frame, last) == IF frame >= last THEN last ELSE frame

LastFrameUnclamped(frame, first) == frame

LastFrame(frame, first) == IF frame <= first THEN first ELSE frame

set_movement_first_frame(frame) ==
    /\ movement_first_frame' = FirstFrame(frame, movement_last_frame)
    /\ Called("set_movement_first_frame", <<frame > movement_last_frame>>)
    /\ UNCHANGED <<movement_slider, movement_last_frame, is_animating, is_recording,
                   animated_Q, Q, experimental_markers, events, last_event_index>>
    /\ UNCHANGED other_vars

set_movement_last_frame(frame) ==
    /\ movement_last_frame' = LastFrame(frame, movement_first_frame)
    /\ Called("set_movement_last_frame", <<frame < movement_first_frame>>)
    /\ UNCHANGED <<movement_slider, movement_first_frame, is_animating, is_recording,
                   animated_Q, Q, experimental_markers, events, last_event_index>>
    /\ UNCHANGED other_vars

\* The frames that "Set Start" and "Set End" read under the 1-based cursor.
StartFrameAtCursor(value) == value - 1

EndFrameAtCursorNext(value) == value + 1

EndFrameAtCursor(value) == value

\* C3dEditorAnalyses._set_time: the "Set Start" / "Set End" buttons of the C3D
\* editor panel, available once experimental markers are loaded.
set_time(index) ==
    /\ experimental_markers > 0
    /\ IF index = 0
       THEN /\ movement_first_frame' =
                   FirstFrame(StartFrameAtCursor(movement_slider.value), movement_last_frame)
            /\ UNCHANGED movement_last_frame
       ELSE /\ movement_last_frame' =
                   LastFrame(EndFrameAtCursor(movement_slider.value), movement_first_frame)
            /\ UNCHANGED movement_first_frame
    /\ Called("_set_time", <<index>>)
    /\ UNCHANGED <<movement_slider, is_animating, is_recording, animated_Q, Q,
                   experimental_markers, events, last_event_index>>
    /\ UNCHANGED other_vars

\* Viz._start_stop_animation, bound to the play/pause button that
\* _set_movement_slider enables.
start_stop_animation ==
    /\ Loaded
    /\ is_animating' = StartStopAnimation(is_animating)
    /\ WarnOnToggle(TRUE, animation_warning_already_shown)
    /\ Called("_start_stop_animation", <<>>)
    /\ UNCHANGED <<movement_slider, movement_first_frame, movement_last_frame,
                   is_recording, animated_Q, Q, experimental_markers, events,
                   last_event_index>>
    /\ UNCHANGED <<panel_vars, layer_vars, kinematics, vtk_vars, exec_vars, c3d_vars>>

\* The wrap test and the wrap target of Viz.update.
OverrunStrict(value, last) == value > last

Overrun(value, last) == value >= last

WrapToFirst(first) == first

WrapTarget(first) == first + 1

\* The cursor and the pose after the two setValue calls of Viz.update.
UpdateSlider(s, aq, q, first, last) ==
    LET s1 == SetValue(s, s.value + 1)
        q1 == OnValueChanged(aq, q, s, s1)
        s2 == IF Overrun(s1.value, last) THEN SetValue(s1, WrapTarget(first)) ELSE s1
        q2 == OnValueChanged(aq, q1, s1, s2)
    IN  [slider |-> s2, set_q |-> q2]

\* Viz.update while animating (one animation tick).  Outside animation the
\* call only repaints.  call.args tells whether the tick wrapped the cursor.
update ==
    /\ is_animating
    /\ LET r == UpdateSlider(movement_slider, animated_Q, <<>>, movement_first_frame,
                             movement_last_frame)
       IN  /\ movement_slider' = r.slider
           /\ SetQCalls(r.set_q)
           /\ is_animating' =
                  IF is_recording /\ r.slider.value = movement_last_frame
                  THEN FALSE ELSE is_animating
           /\ WarnOnToggle(is_recording /\ r.slider.value = movement_last_frame,
                           animation_warning_already_shown)
    /\ Called("update", <<Overrun(SetValue(movement_slider, movement_slider.value + 1).value,
                                   movement_last_frame)>>)
    /\ UNCHANGED <<movement_first_frame, movement_last_frame, is_recording, animated_Q,
                   experimental_markers, events, last_event_index>>
    /\ UNCHANGED <<panel_vars, layer_vars, exec_vars, c3d_vars>>

\* The user drags the enabled timeline slider to v.
move_slider(v) ==
    /\ Loaded
    /\ LET s1 == SetValue(movement_slider, v)
       IN  /\ movement_slider' = s1
           /\ SetQCalls(OnValueChanged(animated_Q, <<>>, movement_slider, s1))
    /\ Called("move_slider", <<>>)
    /\ UNCHANGED <<movement_first_frame, movement_last_frame, is_animating, is_recording,
                   animated_Q, experimental_markers, events, last_event_index>>
    /\ UNCHANGED <<panel_vars, layer_vars, session_vars>>

\* os.path.splitext on a path written as its dot-separated parts: the root
\* and the extension (<<>> when there is none, <<"ogv">> for ".ogv").  A
\* leading dot of the name starts no extension.
Splitext(path) ==
    IF Len(path) > 2 \/ (Len(path) = 2 /\ path[1] # "")
    THEN [root |-> SubSeq(path, 1, Len(path) - 1), ext |-> <<path[Len(path)]>>]
    ELSE [root |-> path, ext |-> <<>>]

\* The extension test of Viz._record.
VideoExtensionRefused(ext) == ext # <<>> /\ ext # <<"ogv">>

\* Viz._record(finish=False, file_name=path): what start_recording(path) does
\* from is_recording = rec.  file is the name VtkWindow.record starts the
\* video recorder on (None when it starts none).
Record(rec, path) ==
    LET sp == Splitext(path)
    IN  IF rec
        THEN [is_recording |-> TRUE, file |-> IF path = <<"">> THEN None ELSE path,
              raised |-> FALSE]
        ELSE IF sp.root = <<"">>
        THEN [is_recording |-> FALSE, file |-> None, raised |-> FALSE]
        ELSE IF VideoExtensionRefused(sp.ext)
        THEN [is_recording |-> FALSE, file |-> None, raised |-> TRUE]
        ELSE [is_recording |-> TRUE, file |-> sp.root \o <<"ogv">>, raised |-> FALSE]

\* Viz.start_recording(save_path).  call.args is the path given and the file
\* the video recorder was started on.
StartRecording(path) ==
    /\ LET r == Record(is_recording, path)
       IN  /\ is_recording' = r.is_recording
           /\ call' = [op |-> "start_recording", args |-> <<path, r.file>>,
                       raised |-> r.raised]
    /\ UNCHANGED <<movement_slider, movement_first_frame, movement_last_frame,
                   is_animating, animated_Q, Q, experimental_markers, events,
                   last_event_index>>
    /\ UNCHANGED other_vars

\* Viz.start_recording with a valid .ogv path.
start_recording == StartRecording(<<"video", "ogv">>)

\* The extension test of Viz.snapshot, on the extension after the default.
SnapshotExtensionRefused(ext) == ext # <<"png">>

\* Viz.snapshot(save_path): the file VtkWindow.snapshot writes, or the raise.
Snapshot(path) ==
    LET sp == Splitext(path)
        extension == IF sp.ext = <<>> THEN <<"png">> ELSE sp.ext
    IN  IF SnapshotExtensionRefused(extension)
        THEN [file |-> None, raised |-> TRUE]
        ELSE [file |-> sp.root \o extension, raised |-> FALSE]

snapshot(path) ==
    /\ LET r == Snapshot(path)
       IN  call' = [op |-> "snapshot", args |-> <<path, r.file>>, raised |-> r.raised]
    /\ UNCHANGED <<playback_vars, ledger_vars, other_vars>>

\* Viz.stop_recording of a running recording.
stop_recording ==
    /\ is_recording
    /\ is_recording' = FALSE
    /\ Called("stop_recording", <<>>)
    /\ UNCHANGED <<movement_slider, movement_first_frame, movement_last_frame,
                   is_animating, animated_Q, Q, experimental_markers, events,
                   last_event_index>>
    /\ UNCHANGED other_vars

\* ------------------------------------------------------------------- exec
\* Viz.update outside animation: the window is repainted and nothing else.
repaint ==
    /\ ~is_animating
    /\ Called("update", <<FALSE>>)
    /\ UNCHANGED <<playback_vars, ledger_vars, other_vars>>

\* Viz.exec is entered: is_executing = True, then the loop.
exec_begin ==
    /\ exec_pc = "idle"
    /\ exec_pc' = "loop"
    /\ is_executing' = TRUE
    /\ Called("exec", <<"entered">>)
    /\ UNCHANGED <<is_active, warning_vars, c3d_vars>>
    /\ UNCHANGED <<playback_vars, ledger_vars, panel_vars, layer_vars, kinematics,
                   vtk_vars>>

\* The loop test of Viz.exec.
LoopForever(active) == TRUE

LoopGoesOn(active) == active

\* One iteration of the loop of Viz.exec: the test, then Viz.update.
exec_update ==
    /\ exec_pc = "loop"
    /\ LoopGoesOn(is_active)
    /\ (update \/ repaint)

\* The loop test of Viz.exec fails: is_executing = False and exec returns.
exec_end ==
    /\ exec_pc = "loop"
    /\ ~LoopGoesOn(is_active)
    /\ exec_pc' = "idle"
    /\ is_executing' = FALSE
    /\ Called("exec", <<"returned">>)
    /\ UNCHANGED <<is_active, warning_vars, c3d_vars>>
    /\ UNCHANGED <<playback_vars, ledger_vars, panel_vars, layer_vars, kinematics,
                   vtk_vars>>

\* VtkWindow.closeEvent: the user closes the window, or Viz.quit does.
closeEvent ==
    /\ is_active
    /\ is_active' = FALSE
    /\ Called("closeEvent", <<>>)
    /\ UNCHANGED <<is_executing, exec_pc, warning_vars, c3d_vars>>
    /\ UNCHANGED <<playback_vars, ledger_vars, panel_vars, layer_vars, kinematics,
                   vtk_vars>>

\* ----------------------------------------------------------------- ledger
\* events[index] on the Python list of n_max_events slots: a negative index
\* counts from the end, anything outside raises IndexError.
PyIndex(i) == IF i < 0 THEN i + n_max_events ELSE i
InList(i) == PyIndex(i) >= 0 /\ PyIndex(i) < n_max_events

\* Viz.select_event(index) on the slots evs with high-water mark last: the
\* slots with their selection flags, the slider and the pose afterwards, the
\* slot returned, and whether events[index] raised IndexError (the flags are
\* written before the failing access).
SelectEvent(evs, last, s, aq, q, index) ==
    LET idx == IF index = NoIndex \/ index[1] > last THEN -1 ELSE index[1]
        flagged == [i \in DOMAIN evs |-> [evs[i] EXCEPT !.is_selected = (i = idx)]]
        s1 == SetValue(s, evs[PyIndex(idx)].frame + 1)
    IN  IF InList(idx)
        THEN [events |-> flagged, slider |-> s1, set_q |-> OnValueChanged(aq, q, s, s1),
              slot |-> PyIndex(idx), raised |-> FALSE]
        ELSE [events |-> flagged, slider |-> s, set_q |-> q, slot |-> -1, raised |-> TRUE]

\* Viz.select_event(index) called on the viewer.
select_event(index) ==
    LET r == SelectEvent(events, last_event_index, movement_slider, animated_Q, <<>>,
                         index)
    IN  /\ events' = r.events
        /\ movement_slider' = r.slider
        /\ SetQCalls(r.set_q)
        /\ call' = [op |-> "select_event", args |-> <<>>, raised |-> r.raised]
        /\ UNCHANGED <<movement_first_frame, movement_last_frame, is_animating,
                       is_recording, animated_Q, experimental_markers, last_event_index>>
        /\ UNCHANGED <<panel_vars, layer_vars, session_vars>>

\* The explicit range check of set_event.
BeyondLastEventInclusive(idx, last) == idx >= last

BeyondLastEvent(idx, last) == idx > last

\* Viz.set_event(frame, name, index) on the slots evs with high-water mark
\* last_index: the slots and the mark afterwards, and whether it raised (the
\* mark is incremented before the failing access).
SetEvent(evs, last_index, frame, name, index) ==
    LET last == IF index = NoIndex THEN last_index + 1 ELSE last_index
        idx == IF index = NoIndex THEN last ELSE index[1]
    IN  IF BeyondLastEvent(idx, last) \/ ~InList(idx)
        THEN [events |-> evs, last_event_index |-> last, raised |-> TRUE]
        ELSE [events |-> [evs EXCEPT ![PyIndex(idx)] =
                             [@ EXCEPT !.frame = frame, !.name = name, !.value = frame]],
              last_event_index |-> last, raised |-> FALSE]

\* Viz.set_event(frame, name, index) called on the viewer.
set_event(frame, name, index) ==
    LET r == SetEvent(events, last_event_index, frame, name, index)
    IN  /\ events' = r.events
        /\ last_event_index' = r.last_event_index
        /\ call' = [op |-> "set_event", args |-> <<index>>, raised |-> r.raised]
        /\ UNCHANGED <<playback_vars, other_vars>>

\* Viz.n_events: the number of slots holding a frame.
n_events(evs) == Cardinality({i \in DOMAIN evs : evs[i].frame >= 0})

\* What clear_events writes in one slot.
ClearedEventKeepsMarker(event) == [event EXCEPT !.frame = -1, !.name = ""]

ClearedEvent(event) == [event EXCEPT !.frame = -1, !.name = "", !.value = -1]

\* Viz.clear_events.
clear_events ==
    /\ events' = [i \in DOMAIN events |-> ClearedEvent(events[i])]
    /\ last_event_index' = -1
    /\ Called("clear_events", <<>>)
    /\ UNCHANGED <<playback_vars, other_vars>>

\* ------------------------------------------------------- C3D editor panel
\* The panel is reachable once load_experimental_markers was given a C3D file
\* (radio_c3d_editor_model.setEnabled(True)).
PanelEnabled == experimental_markers > 0

\* Steps of the "<" and ">" buttons, and frames typed in the frame edit box
\* (int(text) - 1 for any integer typed).
Steps == {-1, 1}
TypedFrames == {-2, 0, MaxFrames}

\* current_event_selected after the two wrap tests of _select_event.
SelectedAfterStep(cur, step, last) ==
    LET c1 == cur + step
        c2 == IF c1 < -1 THEN last ELSE c1
    IN  IF c2 > last THEN -1 ELSE c2

\* C3dEditorAnalyses._select_event(step): the panel cursor is written first,
\* Viz.select_event may then raise, and only after it returned is the frame
\* editor shown or hidden.
PanelSelectEvent(cur, vis, evs, last, s, aq, q, step) ==
    LET c == SelectedAfterStep(cur, step, last)
        r == SelectEvent(evs, last, s, aq, q, <<c>>)
    IN  [current |-> c, events |-> r.events, slider |-> r.slider, set_q |-> r.set_q,
         visible |-> IF r.raised THEN vis ELSE c >= 0, raised |-> r.raised]

\* The "<" / ">" buttons.
c3d_select_event(step) ==
    /\ PanelEnabled
    /\ LET r == PanelSelectEvent(current_event_selected, event_setter_visible, events,
                                 last_event_index, movement_slider, animated_Q, <<>>,
                                 step)
       IN  /\ current_event_selected' = r.current
           /\ event_setter_visible' = r.visible
           /\ events' = r.events
           /\ movement_slider' = r.slider
           /\ SetQCalls(r.set_q)
           /\ call' = [op |-> "_select_event", args |-> <<step>>, raised |-> r.raised]
    /\ UNCHANGED <<movement_first_frame, movement_last_frame, is_animating, is_recording,
                   animated_Q, experimental_markers, last_event_index, layer_vars,
                   session_vars>>

\* C3dEditorAnalyses._add_event_to_trial: an event button appends an event at
\* the frame under the cursor.
c3d_add_event_to_trial(name) ==
    /\ PanelEnabled
    /\ LET r == SetEvent(events, last_event_index, movement_slider.value - 1, name, NoIndex)
       IN  /\ events' = r.events
           /\ last_event_index' = r.last_event_index
           /\ call' = [op |-> "_add_event_to_trial", args |-> <<>>, raised |-> r.raised]
    /\ UNCHANGED <<playback_vars, panel_vars, vtk_vars, layer_vars, kinematics,
                   session_vars>>

\* C3dEditorAnalyses._modify_event_to_trial(current_event_selected, frame):
\* select_event, set_event with the name of the slot it returned, then
\* _select_event(0); an exception leaves what was written before it.
ModifyEventToTrial(op, frame) ==
    LET idx == <<current_event_selected>>
        r1 == SelectEvent(events, last_event_index, movement_slider, animated_Q, <<>>,
                          idx)
        r2 == SetEvent(r1.events, last_event_index, frame, r1.events[r1.slot].name, idx)
        r3 == PanelSelectEvent(current_event_selected, event_setter_visible, r2.events,
                               r2.last_event_index, r1.slider, animated_Q, r1.set_q, 0)
    IN  /\ UNCHANGED <<movement_first_frame, movement_last_frame, is_animating,
                       is_recording, animated_Q, experimental_markers, layer_vars,
                       session_vars>>
        /\ IF r1.raised \/ r2.raised
           THEN /\ events' = r1.events
                /\ movement_slider' = r1.slider
                /\ SetQCalls(r1.set_q)
                /\ last_event_index' = last_event_index
                /\ UNCHANGED panel_vars
                /\ Raised(op, <<>>)
           ELSE /\ events' = r3.events
                /\ movement_slider' = r3.slider
                /\ SetQCalls(r3.set_q)
                /\ last_event_index' = r2.last_event_index
                /\ current_event_selected' = r3.current
                /\ event_setter_visible' = r3.visible
                /\ call' = [op |-> op, args |-> <<>>, raised |-> r3.raised]

\* The "Set" button of the frame editor, with an integer typed in the box.
c3d_set_event_frame_from_text_edit(new_frame) ==
    /\ PanelEnabled
    /\ event_setter_visible
    /\ ModifyEventToTrial("_set_event_frame_from_text_edit", new_frame)

\* The "Set to current frame" button of the frame editor.
c3d_set_event_frame_to_current_frame ==
    /\ PanelEnabled
    /\ event_setter_visible
    /\ ModifyEventToTrial("_set_event_frame_to_current_frame", movement_slider.value - 1)

\* ------------------------------------------------------------------ poses
\* isinstance(Q, np.ndarray) once tuples and lists went through np.array.
IsNdarray(arg) == arg.type \in {"ndarray", "tuple"}

\* The type test that opens set_q.
RejectedBySetQ(arg) == ~IsNdarray(arg) /\ arg.ndim > 1 /\ arg.pose.shape0 # nQ

\* The poses biorbd is specified for: a vector of nQ coordinates.
FitsModel(arg) == IsNdarray(arg) /\ arg.ndim = 1 /\ arg.pose.shape0 = nQ

\* Viz.set_q(Q) called on the viewer.  The type test raises before anything
\* is written; otherwise Q is stored, then the kinematics are updated and the
\* layers redrawn.  With a pose biorbd is not specified for, the model either
\* raises from UpdateKinematicsCustom or goes on with it.  call.args holds
\* shape[0] of the argument and the number of kinematics passes made.
set_q(arg) ==
    /\ UNCHANGED <<movement_slider, movement_first_frame, movement_last_frame,
                   is_animating, is_recording, animated_Q, experimental_markers,
                   ledger_vars, panel_vars, layer_vars, session_vars>>
    /\ IF RejectedBySetQ(arg)
       THEN /\ Raised("set_q", <<arg.pose.shape0, 0>>)
            /\ UNCHANGED <<Q, kinematics, vtk_vars>>
       ELSE \/ /\ SetQCalls(<<arg.pose>>)
               /\ Called("set_q", <<arg.pose.shape0, KinematicsPasses(show)>>)
            \/ /\ ~FitsModel(arg)
               /\ Q' = arg.pose
               /\ Raised("set_q", <<arg.pose.shape0, 1>>)
               /\ UNCHANGED <<kinematics, vtk_vars>>

\* The loop of toggle_segments over idx: the flags after it, and whether
\* show_segment_is_on[i] raised IndexError (the flags flipped before it stay).
RECURSIVE FlipSegments(_, _)
FlipSegments(on, idx) ==
    IF idx = <<>> THEN [on |-> on, raised |-> FALSE]
    ELSE LET i == Head(idx)
             k == IF i < 0 THEN i + nbSegment ELSE i
         IN  IF k \in Segments
             THEN FlipSegments([on EXCEPT ![k] = ~on[k]], Tail(idx))
             ELSE [on |-> on, raised |-> TRUE]

\* The markers to remove: those of the segments that are off.
MarkersToRemove(on) == UNION {MarkersOfSegment(s) : s \in {x \in Segments : ~on[x]}}

\* Viz.toggle_segments(idx) on the flags, the removed markers, the cached
\* kinematics and the VtkModel: the meshes are redrawn, the markers to
\* remove recomputed, then the markers and the reference frames redrawn.
ToggleSegments(on, removed, kin, v, idx) ==
    LET f == FlipSegments(on, idx)
        gone == MarkersToRemove(f.on)
    IN  IF f.raised
        THEN [on |-> f.on, removed |-> removed, vtk |-> v, raised |-> TRUE]
        ELSE [on |-> f.on, removed |-> gone, raised |-> FALSE,
              vtk |-> CHOOSE v3 \in
                         {SetRtFromQ(show, f.on, kin, v2) :
                             v2 \in {SetMarkersFromQ(show, gone, kin, v1) :
                                        v1 \in {SetMeshesFromQ(show, f.on, kin, v0) :
                                                   v0 \in {v}}}} : TRUE]

toggle_segments(idx) ==
    /\ \E r \in {ToggleSegments(show_segment_is_on, idx_markers_to_remove, kinematics,
                                 VtkModelNow, idx)} :
          /\ show_segment_is_on' = r.on
          /\ idx_markers_to_remove' = r.removed
          /\ VtkModelBecomes(r.vtk)
          /\ call' = [op |-> "toggle_segments", args |-> <<>>, raised |-> r.raised]
    /\ UNCHANGED <<playback_vars, ledger_vars, panel_vars, show, kinematics,
                   session_vars>>

\* --------------------------------------------------------------- analyses
\* The last pose of the sweep of an analysis graph: the viewer's Q with the
\* chosen degree of freedom at the maximum of its slider.
SweepEnd(q) == [of |-> q, dof |-> "maximum"]

\* MuscleAnalyses / LigamentAnalyses.update_all_graphs, fired by a checkbox
\* or a combo box of the panel: __compute_all_values updates the kinematics
\* of the viewer's model at every pose of the sweep, the last one last.
update_all_graphs(kind) ==
    /\ IF kind = "muscle" THEN show.muscles ELSE show.ligaments
    /\ kinematics' = SweepEnd(Q)
    /\ Called("update_all_graphs", <<kind>>)
    /\ UNCHANGED <<playback_vars, ledger_vars, panel_vars, layer_vars, vtk_vars,
                   session_vars>>

\* ------------------------------------------------------- VtkModel calls
MarkersCall(op, res) ==
    /\ markers' = res.markers
    /\ markers_actors' = res.actors
    /\ ren' = res.ren
    /\ call' = [op |-> op, args |-> <<>>, raised |-> res.raised]
    /\ UNCHANGED <<all_meshes, mesh_actors, all_rt, n_rt, rt_actors>>
    /\ UNCHANGED <<playback_vars, ledger_vars, panel_vars, layer_vars, kinematics,
                   session_vars>>

update_markers(batch) ==
    MarkersCall("update_markers", UpdateMarkers(markers, markers_actors, ren, batch))

new_marker_set(batch) ==
    MarkersCall("new_marker_set", NewMarkerSet(markers, markers_actors, ren, batch))

MeshCall(op, res) ==
    /\ all_meshes' = res.all_meshes
    /\ mesh_actors' = res.actors
    /\ ren' = res.ren
    /\ call' = [op |-> op, args |-> <<>>, raised |-> res.raised]
    /\ UNCHANGED <<markers, markers_actors, all_rt, n_rt, rt_actors>>
    /\ UNCHANGED <<playback_vars, ledger_vars, panel_vars, layer_vars, kinematics,
                   session_vars>>

update_mesh(batch) ==
    MeshCall("update_mesh", UpdateMesh(all_meshes, mesh_actors, ren, batch))

new_mesh_set(batch) ==
    MeshCall("new_mesh_set", NewMeshSet(all_meshes, mesh_actors, ren, batch))

\* ------------------------------------------------------------------- Next
\* The playback controller: loads, trims, play/pause, ticks, scrubbing and
\* recording.
Next ==
    \/ \E n \in FrameCounts, a \in BOOLEAN : load_movement(n, a)
    \/ \E n \in FrameCounts, a \in BOOLEAN : load_experimental_markers(n, a)
    \/ \E f \in FrameArgs : set_movement_first_frame(f)
    \/ \E f \in FrameArgs : set_movement_last_frame(f)
    \/ \E i \in {0, 1} : set_time(i)
    \/ start_stop_animation
    \/ update
    \/ \E v \in movement_slider.minimum..movement_slider.maximum : move_slider(v)
    \/ start_recording
    \/ stop_recording

Spec == Init /\ [][Next]_vars

\* The event ledger on a loaded timeline: event edits and selection, motion
\* loads and scrubbing.
NextEvents ==
    \/ \E f \in EventFrames, nm \in EventNames, i \in EventIndices :
          (i = NoIndex => last_event_index < LastEventIndexCap) /\ set_event(f, nm, i)
    \/ clear_events
    \/ \E i \in EventIndices : select_event(i)
    \/ load_movement(MaxFrames, FALSE)
    \/ \E v \in movement_slider.minimum..movement_slider.maximum : move_slider(v)

SpecEvents == Init /\ [][NextEvents]_vars

\* The C3D editor panel on a trial loaded from a C3D file: event buttons,
\* event selection, the frame editor, "Clear all events" and scrubbing.
NextPanel ==
    \/ load_experimental_markers(MaxFrames, FALSE)
    \/ \E v \in movement_slider.minimum..movement_slider.maximum : move_slider(v)
    \/ \E nm \in EventNames :
          last_event_index < LastEventIndexCap /\ c3d_add_event_to_trial(nm)
    \/ \E step \in Steps : c3d_select_event(step)
    \/ \E f \in TypedFrames : c3d_set_event_frame_from_text_edit(f)
    \/ c3d_set_event_frame_to_current_frame
    \/ PanelEnabled /\ clear_events

SpecPanel == Init /\ [][NextPanel]_vars

\* The pose pipeline of a viewer built with any set of layers, driven by
\* set_q and toggle_segments.
NextPose ==
    \/ \E arg \in PoseArgs : set_q(arg)
    \/ \E idx \in SegmentArgs : toggle_segments(idx)

SpecPose == (\E o \in ShowOptions : InitWith(o)) /\ [][NextPose]_vars

\* The marker collection of a VtkModel, driven by its update calls.
NextVtkMarkers ==
    \/ \E batch \in MarkerBatches : update_markers(batch)
    \/ \E batch \in MarkerBatches : new_marker_set(batch)

SpecVtkMarkers == InitWith(NoLayers) /\ [][NextVtkMarkers]_vars

\* The mesh collection of a VtkModel, driven by its update calls.
NextVtkMeshes ==
    \/ \E batch \in MeshBatches : update_mesh(batch)
    \/ \E batch \in MeshBatches : new_mesh_set(batch)

SpecVtkMeshes == InitWith(NoLayers) /\ [][NextVtkMeshes]_vars

\* --------------------------------------------------------------- C3D file
\* A string of an event name is the sequence of its words and of the spaces
\* between them: <<"Left", " ", "Heel">> is "Left Heel", <<>> is "".
C3dNames == {<<"Heel">>, <<"Left", " ", "Heel">>}

\* The C3D files loaded: a trial without events, with its
\* header.points.first_frame and frame_rate.
TrialFiles ==
    {[name |-> "trial", first_frame |-> f, frame_rate |-> r, EVENT |-> None] :
        f \in {0, 1}, r \in {100}}

\* str.split(" "): the pieces between the spaces, empty pieces included.
RECURSIVE Split(_)
Split(str) ==
    LET spaces == {i \in 1..Len(str) : str[i] = " "}
    IN  IF spaces = {}
        THEN <<str>>
        ELSE LET i == Lowest(spaces)
             IN  <<SubSeq(str, 1, i - 1)>> \o Split(SubSeq(str, i + 1, Len(str)))

\* " ".join(pieces).
RECURSIVE Join(_)
Join(pieces) ==
    IF pieces = <<>> THEN <<>>
    ELSE IF Len(pieces) = 1 THEN pieces[1]
    ELSE pieces[1] \o <<" ">> \o Join(Tail(pieces))

\* str.lower() on the words of the names.
Lower(str) ==
    [i \in 1..Len(str) |->
        CASE str[i] = "Left" -> "left" [] str[i] = "Right" -> "right" [] OTHER -> str[i]]

\* f"{context} {label}".
ContextAndLabel(context, label) == context \o <<" ">> \o label

\* The context and label convert_event_for_c3d splits a name into.
SplitName(name) ==
    LET split_name == Split(name)
    IN  IF Len(split_name) > 1 /\ Lower(split_name[1]) \in {<<"left">>, <<"right">>}
        THEN [context |-> split_name[1], label |-> Join(Tail(split_name))]
        ELSE [context |-> <<>>, label |-> Join(split_name)]

\* Python's round(a / b) for b > 0: to the nearest integer, halves to even.
Round(a, b) ==
    LET q == a \div b
        r == a % b
    IN  IF 2 * r < b THEN q
        ELSE IF 2 * r > b THEN q + 1
        ELSE IF q % 2 = 0 THEN q ELSE q + 1

\* C3dEditorAnalyses.convert_event_for_c3d on the slots from i on.  A time in
\* seconds is the exact fraction num / den.
RECURSIVE ConvertEventForC3d(_, _, _, _)
ConvertEventForC3d(evs, first_frame, frame_rate, i) ==
    IF i \notin DOMAIN evs THEN [contexts |-> <<>>, labels |-> <<>>, times |-> <<>>]
    ELSE LET rest == ConvertEventForC3d(evs, first_frame, frame_rate, i + 1)
             nm == SplitName(evs[i].name)
         IN  IF evs[i].frame = -1 THEN rest
             ELSE [contexts |-> <<nm.context>> \o rest.contexts,
                   labels |-> <<nm.label>> \o rest.labels,
                   times |-> <<[num |-> evs[i].frame + first_frame,
                                den |-> frame_rate]>> \o rest.times]

\* The file C3dEditorAnalyses._export_c3d writes from the file loaded.
ExportC3d(file, evs, first, first_c3d) ==
    LET first_frame == first + first_c3d
        r == ConvertEventForC3d(evs, first_frame, file.frame_rate, 0)
    IN  [name |-> "exported", first_frame |-> first_frame,
         frame_rate |-> file.frame_rate,
         EVENT |-> [USED |-> n_events(evs), CONTEXTS |-> r.contexts,
                    LABELS |-> r.labels, TIMES |-> r.times]]

\* The (frame, name) pairs C3dEditorAnalyses._read_events hands to set_event,
\* in order, with first_frame_c3d = first_c3d.
ReadEvents(file, first_c3d) ==
    [i \in 1..file.EVENT.USED |->
        [frame |-> Round(file.EVENT.TIMES[i].num * file.frame_rate,
                         file.EVENT.TIMES[i].den) - first_c3d,
         name |-> ContextAndLabel(file.EVENT.CONTEXTS[i], file.EVENT.LABELS[i])]]

\* The set_event calls of _read_events, one after the other, until one raises.
RECURSIVE SetEvents(_, _, _)
SetEvents(evs, last, pairs) ==
    IF pairs = <<>> THEN [events |-> evs, last_event_index |-> last, raised |-> FALSE]
    ELSE LET r == SetEvent(evs, last, pairs[1].frame, pairs[1].name, NoIndex)
         IN  IF r.raised THEN r
             ELSE SetEvents(r.events, r.last_event_index, Tail(pairs))

\* load_experimental_markers(path) of a C3D file of MaxFrames frames.
load_c3d(file) ==
    /\ LoadInto(animated_Q, MaxFrames, FALSE, TRUE)
    /\ c3d_file' = file
    /\ Called("load_experimental_markers", <<file.name>>)
    /\ UNCHANGED <<exported_file, first_frame_c3d, event_from_c3d_file_name>>

\* C3dEditorAnalyses.on_activate / _read_events when the file loaded is not
\* the one the events were last read from: the first-frame offset is taken
\* from the file and, when the file has events, the ledger is cleared and
\* filled from them.
c3d_read_events ==
    /\ c3d_file # None
    /\ c3d_file.name # event_from_c3d_file_name
    /\ event_from_c3d_file_name' = c3d_file.name
    /\ first_frame_c3d' = c3d_file.first_frame
    /\ IF c3d_file.EVENT # None /\ c3d_file.EVENT.USED > 0
       THEN LET r == SetEvents([i \in DOMAIN events |-> ClearedEvent(events[i])], -1,
                               ReadEvents(c3d_file, c3d_file.first_frame))
            IN  /\ events' = r.events
                /\ last_event_index' = r.last_event_index
                /\ call' = [op |-> "_read_events", args |-> <<TRUE>>, raised |-> r.raised]
       ELSE /\ UNCHANGED <<events, last_event_index>>
            /\ Called("_read_events", <<FALSE>>)
    /\ UNCHANGED <<c3d_file, exported_file>>
    /\ UNCHANGED <<playback_vars, panel_vars, layer_vars, kinematics, vtk_vars,
                   exec_vars, warning_vars>>

\* The "Export C3D" button, a file name being chosen in the dialog.
c3d_export ==
    /\ c3d_file # None
    /\ exported_file' =
           ExportC3d(c3d_file, events, movement_first_frame, first_frame_c3d)
    /\ Called("_export_c3d", <<>>)
    /\ UNCHANGED <<c3d_file, first_frame_c3d, event_from_c3d_file_name>>
    /\ UNCHANGED <<playback_vars, ledger_vars, panel_vars, layer_vars, kinematics,
                   vtk_vars, exec_vars, warning_vars>>

\* The paths given to start_recording and to snapshot, as dot-separated parts.
RecordPaths == {<<"">>, <<"clip">>, <<"clip", "ogv">>, <<"clip", "avi">>}

SnapshotPaths == {<<"shot">>, <<"shot", "png">>, <<"shot", "jpg">>}

\* A viewing session: loads with or without the warning silenced, play/pause,
\* exec and calls of update outside it, the window being closed, recording
\* and snapshots.
NextSession ==
    \/ \E a \in BOOLEAN, g \in BOOLEAN : LoadMovement(MaxFrames, a, g)
    \/ start_stop_animation
    \/ exec_begin
    \/ exec_update
    \/ exec_end
    \/ closeEvent
    \/ exec_pc = "idle" /\ update
    \/ \E path \in RecordPaths : StartRecording(path)
    \/ stop_recording
    \/ \E path \in SnapshotPaths : snapshot(path)

SpecSession == Init /\ [][NextSession]_vars

\* exec runs on: once its loop test fails, it returns.
SpecSessionFair == SpecSession /\ WF_vars(exec_end)

\* A C3D trial is loaded and read, trimmed and given events in the C3D editor
\* panel, exported, and the exported file is loaded and read back.
NextC3d ==
    \/ \E file \in TrialFiles : c3d_file = None /\ load_c3d(file)
    \/ exported_file # None /\ c3d_file # exported_file /\ load_c3d(exported_file)
    \/ c3d_read_events
    \/ \E v \in movement_slider.minimum..movement_slider.maximum :
          exported_file = None /\ move_slider(v)
    \/ \E i \in {0, 1} : exported_file = None /\ set_time(i)
    \/ \E nm \in C3dNames :
          /\ exported_file = None
          /\ last_event_index < LastEventIndexCap
          /\ c3d_add_event_to_trial(nm)
    \/ c3d_export

SpecC3d == Init /\ [][NextC3d]_vars

\* The events of a C3D trial are edited in the C3D editor panel (added,
\* selected, moved to a typed frame, cleared), and the trial is exported.
NextC3dEdit ==
    \/ \E file \in TrialFiles : c3d_file = None /\ load_c3d(file)
    \/ \E v \in movement_slider.minimum..movement_slider.maximum :
          exported_file = None /\ move_slider(v)
    \/ \E nm \in C3dNames :
          /\ exported_file = None
          /\ last_event_index < LastEventIndexCap
          /\ c3d_add_event_to_trial(nm)
    \/ \E step \in Steps : exported_file = None /\ c3d_select_event(step)
    \/ \E f \in TypedFrames :
          exported_file = None /\ c3d_set_event_frame_from_text_edit(f)
    \/ exported_file = None /\ PanelEnabled /\ clear_events
    \/ exported_file = None /\ c3d_export

SpecC3dEdit == Init /\ [][NextC3dEdit]_vars

\* The pose pipeline of a viewer with every layer and the analysis panels:
\* set_q, toggle_segments and updates of the analysis graphs.
NextAnalyses ==
    \/ \E arg \in PoseArgs : set_q(arg)
    \/ \E idx \in SegmentArgs : toggle_segments(idx)
    \/ \E kind \in {"muscle", "ligament"} : update_all_graphs(kind)

SpecAnalyses == Init /\ [][NextAnalyses]_vars

\* ================================================================= claims
cursor == movement_slider.value

\* ---------------------------------------------------------------------- C1
\* C1 (as stated): in every reachable state, from construction on,
\* movement_first_frame <= movement_last_frame.
C1_FirstNotAfterLast == movement_first_frame <= movement_last_frame

\* C1 (amended): movement_first_frame <= movement_last_frame in every state
\* reached once a load or a trim setter has run; until then the constructor's
\* values first = 0, last = -1 stand.
C1_FirstNotAfterLastOnceSet ==
    \/ movement_first_frame <= movement_last_frame
    \/ /\ ~Loaded
       /\ movement_first_frame = 0
       /\ movement_last_frame = -1

\* A last frame asked below the first bound of a loaded timeline was clamped.
C1_Witness ==
    /\ call.op = "set_movement_last_frame"
    /\ call.args[1]
    /\ Loaded
    /\ movement_first_frame > 0
    /\ movement_last_frame = movement_first_frame

\* ---------------------------------------------------------------------- C2
\* C2 (as stated): set_movement_first_frame(f) with f above the last bound
\* gives first = f and raises last to f; set_movement_last_frame(f) with f
\* below the first bound gives last = f and lowers first to f.
C2_TrimPullsOtherBound ==
    [][\A f \in FrameArgs :
          /\ (set_movement_first_frame(f) /\ f > movement_last_frame)
                => (movement_first_frame' = f /\ movement_last_frame' = f)
          /\ (set_movement_last_frame(f) /\ f < movement_first_frame)
                => (movement_last_frame' = f /\ movement_first_frame' = f)]_vars

\* C2 (amended): set_movement_first_frame(f) with f above the last bound sets
\* first to the last bound and leaves last unchanged; set_movement_last_frame(f)
\* with f below the first bound sets last to the first bound and leaves first
\* unchanged.
C2_TrimClampsToOtherBound ==
    [][\A f \in FrameArgs :
          /\ (/\ call'.op = "set_movement_first_frame"
              /\ f > movement_last_frame
              /\ set_movement_first_frame(f))
                => (/\ movement_first_frame' = movement_last_frame
                    /\ movement_last_frame' = movement_last_frame)
          /\ (/\ call'.op = "set_movement_last_frame"
              /\ f < movement_first_frame
              /\ set_movement_last_frame(f))
                => (/\ movement_last_frame' = movement_first_frame
                    /\ movement_first_frame' = movement_first_frame)]_vars

\* A first frame asked above the last bound of a loaded timeline was clamped.
C2_Witness ==
    /\ call.op = "set_movement_first_frame"
    /\ call.args[1]
    /\ Loaded
    /\ movement_first_frame = movement_last_frame
    /\ movement_last_frame > 0

\* ---------------------------------------------------------------------- C3
\* C3 (as stated): a tick while Playing moves the cursor from c to c + 1,
\* except that when c + 1 >= movement_last_frame it becomes
\* movement_first_frame + 1.
C3_TickAdvancesOrWraps ==
    [][update =>
          cursor' = IF cursor + 1 >= movement_last_frame
                    THEN movement_first_frame + 1
                    ELSE cursor + 1]_vars

\* C3 (amended): a tick while Playing moves the cursor from c to c + 1 bounded
\* to the slider range; when that value is >= movement_last_frame the cursor
\* becomes movement_first_frame + 1 bounded to the slider range.
C3_TickAdvancesOrWrapsInRange ==
    [][(call'.op = "update" /\ update) =>
          LET lo == movement_slider.minimum
              hi == movement_slider.maximum
              advanced == Bound(lo, cursor + 1, hi)
          IN  cursor' = IF advanced >= movement_last_frame
                        THEN Bound(lo, movement_first_frame + 1, hi)
                        ELSE advanced]_vars

\* A tick has wrapped the cursor of a trimmed timeline to first + 1.
C3_Witness ==
    /\ call.op = "update"
    /\ call.args[1]
    /\ movement_first_frame >= 1
    /\ movement_first_frame + 1 < movement_last_frame
    /\ cursor = movement_first_frame + 1

\* ---------------------------------------------------------------------- C4
\* C4 (as stated): after every tick taken while Playing the cursor lies within
\* [movement_first_frame + 1, movement_last_frame], whatever the cursor and the
\* trim bounds were before.
C4_TickLandsInTrim ==
    [][update =>
          /\ movement_first_frame + 1 <= cursor'
          /\ cursor' <= movement_last_frame]_vars

\* C4 (amended): after a tick taken while Playing from a cursor that is not
\* before the first trim bound, with 0 <= first < last and first below the
\* slider maximum, the cursor lies within [first + 1, last].
C4_TickFromTrimLandsInTrim ==
    [][(/\ call'.op = "update"
        /\ update
        /\ cursor >= movement_first_frame
        /\ 0 <= movement_first_frame
        /\ movement_first_frame < movement_last_frame
        /\ movement_first_frame < movement_slider.maximum)
          => /\ movement_first_frame + 1 <= cursor'
             /\ cursor' <= movement_last_frame]_vars

\* A tick inside a trimmed range advanced the cursor without wrapping.
C4_Witness ==
    /\ call.op = "update"
    /\ ~call.args[1]
    /\ movement_first_frame >= 1
    /\ cursor > movement_first_frame + 1
    /\ cursor < movement_last_frame

C6_LoadLeavesPaused ==
    [][\A n \in FrameCounts, a \in BOOLEAN :
          (call'.op = "load_movement" /\ load_movement(n, a)) => ~is_animating']_vars

\* C6 (amended): after load_movement returns, is_animating equals auto_start:
\* the controller is Paused with auto_start=False and Playing with
\* auto_start=True, which is the default.  That is, no step that leaves
\* is_animating different from a is a load_movement(n, a) step.
C6_LoadFollowsAutoStart ==
    [][\A n \in FrameCounts, a \in BOOLEAN :
          (call'.op = "load_movement" /\ is_animating' # a) => ~load_movement(n, a)]_vars

\* load_movement has returned with the controller Paused.
C6_Witness ==
    /\ call.op = "load_movement"
    /\ animated_Q # None
    /\ ~is_animating

\* ---------------------------------------------------------------------- C7
\* C7: a load resets the cursor to 1 and the first trim bound to 0, and sets
\* the last trim bound and the slider maximum to the larger of the motion's
\* and the experimental markers' frame counts.
C7_LoadResetsTimeline ==
    call.op \in {"load_movement", "load_experimental_markers"} =>
        /\ cursor = 1
        /\ movement_first_frame = 0
        /\ movement_last_frame = Max(animated_Q.shape0, experimental_markers)
        /\ movement_slider.maximum = Max(animated_Q.shape0, experimental_markers)
        /\ movement_slider.minimum = 1

\* Markers longer than the loaded motion have just been loaded.
C7_Witness ==
    /\ call.op = "load_experimental_markers"
    /\ animated_Q # None
    /\ experimental_markers > animated_Q.shape0
    /\ movement_last_frame = experimental_markers
    /\ movement_slider.maximum = experimental_markers
    /\ cursor = 1

Written(slot, frame, name) == [slot EXCEPT !.frame = frame, !.name = name, !.value = frame]

\* index names a used slot of the ledger.
UsedSlot(index) ==
    /\ index # NoIndex
    /\ 0 <= index[1]
    /\ index[1] <= last_event_index
    /\ index[1] \in DOMAIN events

\* C9 (as stated): set_event with index > last_event_index raises and changes
\* nothing; with index omitted it writes slot last_event_index + 1 and
\* increments last_event_index; with the index of a used slot it overwrites
\* that slot only.
C9_SetEventByIndex ==
    [][\A f \in EventFrames, nm \in EventNames, i \in EventIndices :
          (call'.args = <<i>> /\ set_event(f, nm, i)) =>
            /\ (i # NoIndex /\ i[1] > last_event_index) =>
                  (call'.raised /\ UNCHANGED <<events, last_event_index>>)
            /\ (i = NoIndex) =>
                  (/\ ~call'.raised
                   /\ last_event_index' = last_event_index + 1
                   /\ last_event_index + 1 \in DOMAIN events
                   /\ events' = [events EXCEPT ![last_event_index + 1] = Written(@, f, nm)])
            /\ UsedSlot(i) =>
                  (/\ ~call'.raised
                   /\ last_event_index' = last_event_index
                   /\ events' = [events EXCEPT ![i[1]] = Written(@, f, nm)])]_vars

\* C9 (amended): as stated, the append case holding while a free slot remains
\* (last_event_index < n_max_events - 1).
C9_SetEventByIndexWhileRoom ==
    [][\A f \in EventFrames, nm \in EventNames, i \in EventIndices :
          (call'.args = <<i>> /\ set_event(f, nm, i)) =>
            /\ (i # NoIndex /\ i[1] > last_event_index) =>
                  (call'.raised /\ UNCHANGED <<events, last_event_index>>)
            /\ (i = NoIndex /\ last_event_index < n_max_events - 1) =>
                  (/\ ~call'.raised
                   /\ last_event_index' = last_event_index + 1
                   /\ events' = [events EXCEPT ![last_event_index + 1] = Written(@, f, nm)])
            /\ UsedSlot(i) =>
                  (/\ ~call'.raised
                   /\ last_event_index' = last_event_index
                   /\ events' = [events EXCEPT ![i[1]] = Written(@, f, nm)])]_vars

\* The highest used slot has just been overwritten in place, below a free slot.
C9_Witness ==
    /\ call.op = "set_event"
    /\ ~call.raised
    /\ call.args[1] = <<last_event_index>>
    /\ last_event_index >= 1
    /\ last_event_index < n_max_events
    /\ events[last_event_index].frame = 0
    /\ events[0].frame = MaxFrames

\* --------------------------------------------------------------------- C10
\* C10: in every reachable state last_event_index <= n_max_events - 1.
C10_LedgerWithinCapacity == last_event_index <= n_max_events - 1

\* --------------------------------------------------------------------- C11
\* The slots whose marker is flagged selected.
SelectedSlots == {i \in DOMAIN events : events[i].is_selected}

\* The neighbour of cur, step places further in the cycle none (-1), slot 0,
\* ..., slot last.
CyclicNeighbour(cur, step, last) == ((cur + 1 + step) % (last + 2)) - 1

\* C11: a step of the event selection (+1 or -1) taken from none or from a
\* used slot succeeds and moves the selection to its neighbour in the cycle
\* none, slot 0, ..., slot last_event_index; the marker of the selected slot,
\* and no other, is flagged selected.
C11_SelectionCycles ==
    [][\A step \in Steps :
          (/\ call'.op = "_select_event"
           /\ c3d_select_event(step)
           /\ current_event_selected \in -1..last_event_index) =>
              /\ ~call'.raised
              /\ current_event_selected' =
                     CyclicNeighbour(current_event_selected, step, last_event_index)
              /\ SelectedSlots' = {current_event_selected'} \ {-1}
              /\ Cardinality(SelectedSlots') <= 1]_vars

\* --------------------------------------------------------------------- C12
\* C12: while a motion of total_frames frames is loaded, every event slot
\* whose frame is set (not the -1 sentinel) has 0 <= frame < total_frames.
C12_EventFramesWithinMotion ==
    animated_Q # None =>
        \A i \in DOMAIN events :
            events[i].frame # -1 =>
                (0 <= events[i].frame /\ events[i].frame < animated_Q.shape0)

\* --------------------------------------------------------------------- C13
\* C13: clear_events sets every slot's frame to -1, its name to the empty
\* string and its marker value to -1, and last_event_index to -1, so that
\* n_events is 0 afterwards; the next event appended without index is
\* written in slot 0.
C13_ClearEmptiesLedger ==
    [][/\ (call'.op = "clear_events" /\ clear_events) =>
              /\ \A i \in DOMAIN events' :
                    /\ events'[i].frame = -1
                    /\ events'[i].name = ""
                    /\ events'[i].value = -1
              /\ last_event_index' = -1
              /\ n_events(events') = 0
       /\ \A f \in EventFrames, nm \in EventNames :
              (/\ call.op = "clear_events"
               /\ call'.op = "set_event"
               /\ set_event(f, nm, NoIndex)) =>
                  /\ ~call'.raised
                  /\ last_event_index' = 0
                  /\ events'[0].frame = f
                  /\ events'[0].name = nm
                  /\ events'[0].value = f
                  /\ \A i \in DOMAIN events' \ {0} : events'[i] = events[i]]_vars

\* A ledger with two used slots, the second one selected, has been cleared.
C13_Witness ==
    /\ call.op = "clear_events"
    /\ last_event_index = -1
    /\ events[1].is_selected
    /\ n_events(events) = 0

\* --------------------------------------------------------------------- C14
\* Number of frames of the loaded timeline.
total_frames == Max(animated_Q.shape0, experimental_markers)

TrimWithinTimeline ==
    /\ 0 <= movement_first_frame
    /\ movement_first_frame <= movement_last_frame
    /\ movement_last_frame <= total_frames

\* C14 (as stated): once a motion is loaded, both trim bounds lie within
\* [0, total_frames), whatever loads and trim operations followed.
C14_TrimBoundsBelowTotal ==
    animated_Q # None =>
        /\ 0 <= movement_first_frame /\ movement_first_frame < total_frames
        /\ 0 <= movement_last_frame /\ movement_last_frame < total_frames

\* C14 (amended): a load sets the first bound to 0 and the last bound to
\* total_frames itself; from bounds with 0 <= first <= last <= total_frames,
\* Set Start / Set End at any cursor position and the direct setters called
\* with a frame in [0, total_frames] keep 0 <= first <= last <= total_frames.
C14_TrimBoundsUpToTotal ==
    [][/\ (call'.op \in {"load_movement", "load_experimental_markers"}) =>
              (movement_first_frame' = 0 /\ movement_last_frame' = total_frames')
       /\ (call'.op = "_set_time" /\ TrimWithinTimeline) => TrimWithinTimeline'
       /\ (/\ call'.op \in {"set_movement_first_frame", "set_movement_last_frame"}
           /\ TrimWithinTimeline) =>
              \A f \in 0..total_frames :
                  (set_movement_first_frame(f) \/ set_movement_last_frame(f))
                      => TrimWithinTimeline']_vars

\* "Set End" was pressed with the cursor on the last frame of a timeline
\* whose start had been trimmed: the last bound is total_frames.
C14_Witness ==
    /\ call.op = "_set_time"
    /\ call.args = <<1>>
    /\ animated_Q # None
    /\ movement_first_frame > 0
    /\ movement_slider.value = total_frames
    /\ movement_last_frame = total_frames

\* --------------------------------------------------------------------- C15
\* The marker actor objects, in list order.
MarkerActorIds(actors) == [i \in DOMAIN actors |-> actors[i].id]

\* C15: update_markers with a one-frame batch of as many markers as the
\* collection holds keeps the same actor objects and overwrites their
\* positions with the batch's; with another count (the first call on the
\* empty collection included) every former actor leaves the renderer and as
\* many new actors as the batch has markers are created and rendered.  Either
\* way the number of marker actors is the batch's marker count afterwards.
C15_MarkersFollowBatch ==
    [][\A batch \in MarkerBatches :
          (/\ call'.op = "update_markers"
           /\ batch.frames = 1
           /\ update_markers(batch)) =>
              LET old == Range(MarkerActorIds(markers_actors))
                  new == Range(MarkerActorIds(markers_actors'))
              IN  /\ ~call'.raised
                  /\ Len(markers_actors') = batch.channels
                  /\ \A i \in DOMAIN markers_actors' :
                        markers_actors'[i].center = <<batch.tag, i>>
                  /\ Cardinality(new) = batch.channels
                  /\ new \subseteq ren'
                  /\ IF batch.channels = markers.channels
                     THEN /\ MarkerActorIds(markers_actors') = MarkerActorIds(markers_actors)
                          /\ ren' = ren
                     ELSE /\ new \cap old = {}
                          /\ ren' \cap old = {}]_vars

\* A batch with one marker has replaced a larger marker set: its actor is
\* not the first actor ever created.
C15_Witness ==
    /\ call.op = "update_markers"
    /\ ~call.raised
    /\ markers.channels = 1
    /\ Len(markers_actors) = 1
    /\ markers_actors[1].id[2] > 0

\* --------------------------------------------------------------------- C16
\* C16: after every update of a list-based collection (here the segment
\* meshes) that returns normally, the collection has as many actors as the
\* batch just given has primitives, whether the batch has more, fewer or no
\* primitives compared with the previous one.
C16_ActorsMatchBatch ==
    [][\A batch \in MeshBatches :
          (/\ call'.op = "update_mesh"
           /\ update_mesh(batch)
           /\ ~call'.raised) =>
              /\ Len(mesh_actors') = Len(batch)
              /\ Range(mesh_actors') \subseteq ren']_vars

\* --------------------------------------------------------------------- C17
\* No collection stores a batch, or a primitive, of more than one frame.
OneInstantStored ==
    /\ markers.frames <= 1
    /\ \A i \in DOMAIN all_meshes : all_meshes[i].frames <= 1

\* C17: every collection update or new_*_set given a batch that spans more
\* than one time frame fails with an error, and no collection stores a batch
\* of more than one time frame, right after such a failed call included.
C17_SeveralFramesRejected ==
    [][/\ \A batch \in MarkerBatches :
              (/\ call'.op \in {"update_markers", "new_marker_set"}
               /\ SeveralFrames(batch)
               /\ (update_markers(batch) \/ new_marker_set(batch))) =>
                  (call'.raised /\ OneInstantStored')
       /\ \A batch \in MeshBatches :
              (/\ call'.op \in {"update_mesh", "new_mesh_set"}
               /\ SeveralFramesIn(batch) # {}
               /\ (update_mesh(batch) \/ new_mesh_set(batch))) =>
                  (call'.raised /\ OneInstantStored')]_vars

\* ---------------------------------------------------------------- C18
\* C18: during one set_q(Q) call that returns, the kinematics of the model
\* are recomputed exactly once, whatever layers are shown.
C18_OneKinematicsPass ==
    [][(call'.op = "set_q" /\ ~call'.raised) => call'.args[2] = 1]_vars

\* ---------------------------------------------------------------- C19
\* The entries of segment s in the layers the segment switch acts on are
\* NaN exactly when the segment is off.
LayersFollowFlags(on, v) ==
    \A s \in Segments :
        /\ show.meshes => ((v.all_meshes[s + 1].at = NaN) <=> ~on[s])
        /\ show.markers =>
               \A m \in MarkersOfSegment(s) : (m \in v.markers.tag.nan) <=> ~on[s]
        /\ show.local_ref_frame => ((v.all_rt[s + 1].at = NaN) <=> ~on[s])

Geometry(v) == <<v.markers, v.all_meshes, v.all_rt>>

\* Toggling idx once more brings back the geometry there was before idx was
\* toggled.
TwiceRestores(on, removed, kin, v, idx) ==
    LET once == ToggleSegments(on, removed, kin, v, idx)
        twice == ToggleSegments(once.on, once.removed, kin, once.vtk, idx)
    IN  ~once.raised => Geometry(twice.vtk) = Geometry(v)

\* C19: after toggle_segments(idx) returned, the entries of every segment in
\* the shown layers among meshes, markers and local reference frames are NaN
\* exactly when the segment is off, no layer gained or lost a primitive, and
\* toggling the same segments a second time restores the geometry.
C19_ToggleHidesAndRestores ==
    [][(call'.op = "toggle_segments" /\ ~call'.raised) =>
          /\ LayersFollowFlags(show_segment_is_on', VtkModelNow')
          /\ Len(markers_actors') = Len(markers_actors)
          /\ Len(mesh_actors') = Len(mesh_actors)
          /\ Len(rt_actors') = Len(rt_actors)
          /\ \A idx \in SegmentArgs :
                 TwiceRestores(show_segment_is_on, idx_markers_to_remove, kinematics,
                               VtkModelNow, idx)]_vars

\* ---------------------------------------------------------------- C20
\* C20: set_q(Q) with a pose whose length is not the model's number of
\* generalized coordinates raises, and leaves the stored pose and the
\* geometry of every layer as they were.
C20_WrongLengthRejected ==
    [][(call'.op = "set_q" /\ call'.args[1] # nQ) =>
          /\ call'.raised
          /\ Q' = Q
          /\ VtkModelNow' = VtkModelNow]_vars

\* ---------------------------------------------------------------- C21
\* The shown layers hold the geometry of the model at pose q, with NaN for
\* the segments that are off.
LayersAt(q, on, v) ==
    /\ show.meshes =>
           \A s \in Segments : v.all_meshes[s + 1].at = IF on[s] THEN q ELSE NaN
    /\ show.local_ref_frame =>
           \A s \in Segments : v.all_rt[s + 1].at = IF on[s] THEN q ELSE NaN
    /\ show.markers =>
           /\ v.markers.tag.at = q
           /\ \A s \in Segments :
                  \A m \in MarkersOfSegment(s) : (m \in v.markers.tag.nan) <=> ~on[s]

\* C21: after set_q(Q) returned for a pose of the model's size, every shown
\* layer holds the geometry of the model at Q with the hidden segments NaN;
\* set_q never changes the stored pose without doing so; and a second
\* set_q(Q) leaves the same buffers.
C21_SetQSynchronisesLayers ==
    [][call'.op = "set_q" =>
          /\ (call'.args[1] = nQ /\ ~call'.raised) =>
                 /\ LayersAt(Q', show_segment_is_on', VtkModelNow')
                 /\ SetQLayers(show', show_segment_is_on', idx_markers_to_remove', Q',
                               VtkModelNow') = VtkModelNow'
          /\ Q' # Q => LayersAt(Q', show_segment_is_on', VtkModelNow')]_vars

\* ------------------------------------------------------------------- C22
\* C22: over any sequence of play/pause toggles, loads and exec() runs the
\* 'not executing' warning is shown at most once, only by a toggle made while
\* exec() is not running, and every toggle flips is_animating, the one that
\* shows the warning included (a load that auto-starts toggles from Paused,
\* update toggles from Playing when the recording reaches the last frame).
Toggles == {"_start_stop_animation", "load_movement", "update"}

C22_WarningShownOnce ==
    [][/\ warnings_shown' <= 1
       /\ warnings_shown' # warnings_shown =>
              /\ warnings_shown' = warnings_shown + 1
              /\ call'.op \in Toggles
              /\ exec_pc = "idle" /\ ~is_executing
              /\ is_animating' = CASE call'.op = "_start_stop_animation" -> ~is_animating
                                    [] call'.op = "load_movement" -> TRUE
                                    [] call'.op = "update" -> FALSE
       /\ call'.op = "_start_stop_animation" => is_animating' = ~is_animating]_vars

\* The warning was shown once, play/pause was toggled again while exec() was
\* not running, and exec() is now running.
C22_Witness ==
    /\ warnings_shown = 1
    /\ animation_warning_already_shown
    /\ is_executing
    /\ call.op = "_start_stop_animation"

\* ------------------------------------------------------------------- C23
\* C23: snapshot(path) with an extension other than .png and
\* start_recording(path) with an extension other than .ogv raise, start no
\* file under the given or a substituted extension, and leave is_recording
\* False.
OtherExtension(path, ext) == Splitext(path).ext \notin {<<>>, <<ext>>}

C23_UnsupportedFormatRaises ==
    [][/\ (call'.op = "snapshot" /\ OtherExtension(call'.args[1], "png")) =>
              call'.raised /\ call'.args[2] = None
       /\ (call'.op = "start_recording" /\ OtherExtension(call'.args[1], "ogv")) =>
              call'.raised /\ call'.args[2] = None /\ ~is_recording']_vars

\* ------------------------------------------------------------------- C24
\* C24: is_executing is True exactly while exec() is running; once the window
\* is closed (is_active False) exec() runs no further iteration of its loop,
\* and it returns with is_executing False, whether the viewer is Playing,
\* Paused or recording.
C24_ExecEndsWithWindow ==
    /\ [](is_executing <=> exec_pc = "loop")
    /\ [][(~is_active /\ exec_pc = "loop") =>
              /\ call'.op # "update"
              /\ exec_pc' = "idle" => ~is_executing']_vars
    /\ (~is_active) ~> (~is_executing /\ exec_pc = "idle")

\* exec() has returned after the window was closed during a recording of a
\* playing motion.
C24_Witness ==
    /\ call = [op |-> "exec", args |-> <<"returned">>, raised |-> FALSE]
    /\ ~is_active
    /\ ~is_executing
    /\ is_animating
    /\ is_recording

\* ------------------------------------------------------------------- C25
\* C25: the events exported to a C3D file and read back with the offset that
\* was exported are the (frame, name) pairs of the ledger, in slot order, for
\* every ledger, trim offset and first-frame offset of the file, names
\* without a Left/Right context included.
Ledger ==
    [i \in 1..Min(last_event_index + 1, n_max_events) |->
        [frame |-> events[i - 1].frame, name |-> events[i - 1].name]]

C25_ExportImportRoundTrip ==
    [][call'.op = "_export_c3d" =>
          ReadEvents(exported_file', exported_file'.first_frame) = Ledger]_vars

\* ------------------------------------------------------------------- C26
\* C26: in every reachable state the event selected in the C3D editor panel
\* is none or a used slot: -1 <= current_event_selected <= last_event_index.
C26_SelectionWithinLedger ==
    -1 <= current_event_selected /\ current_event_selected <= last_event_index

\* ------------------------------------------------------------------- C27
\* C27: in every reachable state of a viewer that shows the model markers, a
\* marker's stored position is NaN exactly when show_segment_is_on of its
\* segment is False.
C27_MarkersFollowSegmentFlags ==
    show.markers =>
        \A s \in Segments : \A m \in MarkersOfSegment(s) :
            (m \in markers.tag.nan) <=> ~show_segment_is_on[s]

\* ------------------------------------------------------------------- C28
\* C28: on export, EVENT:USED (n_events) equals the number of contexts, of
\* labels and of times convert_event_for_c3d produced, and all equal
\* last_event_index + 1.
C28_UsedCountsExportedEvents ==
    [][call'.op = "_export_c3d" =>
          LET e == exported_file'.EVENT
          IN  /\ e.USED = Len(e.CONTEXTS)
              /\ e.USED = Len(e.LABELS)
              /\ e.USED = Len(e.TIMES)
              /\ e.USED = last_event_index + 1]_vars

\* ------------------------------------------------------------------- C29
\* C29: select_event(i) for a used slot i moves the cursor to the frame of the
\* event + 1 and flags slot i and no other; when the selection ends at none
\* (index None, -1 or above last_event_index) no slot is flagged and the
\* cursor is unchanged.
EndsAtNone(index) == index = NoIndex \/ index[1] = -1 \/ index[1] > last_event_index

C29_SelectMovesCursorToEvent ==
    [][call'.op = "select_event" =>
          \A index \in EventIndices :
              select_event(index) =>
                  /\ UsedSlot(index) =>
                         /\ ~call'.raised
                         /\ index[1] \in DOMAIN events
                         /\ cursor' = events[index[1]].frame + 1
                         /\ SelectedSlots' = {index[1]}
                  /\ EndsAtNone(index) =>
                         /\ SelectedSlots' = {}
                         /\ cursor' = cursor]_vars

\* ------------------------------------------------------------------- C30
\* C30: whenever geometry is queried without a kinematics update (the redraw
\* of toggle_segments), the last kinematics update of the model was made for
\* the viewer's current Q, and the layers it draws are those of Q.
C30_CachedKinematicsIsCurrent ==
    [][(call'.op = "toggle_segments" /\ ~call'.raised) =>
          /\ kinematics = Q
          /\ LayersAt(Q, show_segment_is_on', VtkModelNow')]_vars

====
